---- MODULE Spec2Model ----
(***************************************************************************)
(* A model of the asynchronous retrieval engine of                         *)
(* "Prototypes/Scrapping and web/search-person-v2.py": RobotsCache,        *)
(* PersonScraper.fetch / parse_items / search / run_to_csv and the helper  *)
(* functions sanitize_query, csv_safe, build_url.                          *)
(*                                                                         *)
(* Strings are sequences of one-character tokens ("a", "SP", "TAB", "NUL", *)
(* ...).  A coroutine is a process whose pc names the await it is          *)
(* suspended at; one action is the code that runs between two awaits.      *)
(***************************************************************************)
EXTENDS Integers, Sequences, FiniteSets, TLC

VARIABLES
    cfg,          \* ScraperConfig of the run
    tasks,        \* the set of coroutines calling PersonScraper.fetch
    url,          \* url[t]: the argument of task t's fetch call
    pc,           \* pc[t]: where task t is suspended
    allowed,      \* allowed[t]: the local "allowed" of fetch ("unset" before it is assigned)
    attempt,      \* attempt[t]: the loop variable of fetch
    sem,          \* the value of PersonScraper.sem
    cache,        \* RobotsCache._cache: key -> parser (NoParser: no entry)
    result,       \* result[t]: the value fetch returned
    retAt,        \* retAt[t]: the return statement fetch left through
    gets,         \* gets[t]: session.get calls issued for url[t]
    sleeps,       \* sleeps[t]: sleep_backoff calls made
    robotsGets,   \* robotsGets[k]: session.get calls issued for k/robots.txt
    robotsFailed, \* robotsFailed[k]: a request for k/robots.txt ended without a 200 answer
    web,          \* the page bodies the sites can serve
    onlyRetryable,\* every page response so far had a retryable status
    ua,           \* the User-Agent header of the session
    inputQuery,   \* the query given to run_to_csv
    targets,      \* PersonScraper.targets
    rpc,          \* where run_to_csv / search is
    cleanQuery,   \* search: query after sanitize_query
    ti,           \* search: the index of the target of the loop
    urlText,      \* search: the url built for the target
    pending,      \* parse_items: the item nodes not yet visited
    csvFile,      \* the lines of the file at cfg.output_csv
    rows,         \* run_to_csv: rows
    exitStatus,   \* the exit status of the process (-1: still running)
    fetchLog,     \* the fetch calls of search, in order: the target and the url
    yielded,      \* the items search has yielded to run_to_csv, in order
    call          \* the last call of a helper function: name, arguments, value

fetchVars == <<cfg, tasks, url, pc, allowed, attempt, sem, cache, result, retAt,
               gets, sleeps, robotsGets, robotsFailed, web, onlyRetryable>>

runVars == <<ua, inputQuery, targets, rpc, cleanQuery, ti, urlText, pending, csvFile, rows,
             exitStatus, fetchLog, yielded>>

vars == <<fetchVars, runVars, call>>

-----------------------------------------------------------------------------
(* Bounds of the model *)

\* the largest ScraperConfig.max_retries tried
MaxRetries == 2
\* the largest ScraperConfig.concurrency tried
MaxConcurrency == 2
\* the number of concurrent fetch coroutines
NTasks == 2

-----------------------------------------------------------------------------
(* Data *)

Hosts == {"hostA", "hostB"}
Paths == {"/search"}

\* what urlparse gives for the urls fetched: scheme, netloc, path
Urls == [scheme : {"https"}, netloc : Hosts, path : Paths]

\* a robots.txt document: the paths it disallows (for every user agent)
RobotsDocs == SUBSET Paths

\* RobotFileParser: no entry in the cache, or a parser holding parsed rules
\* (parse sets last_checked)
NoParser == [parsed |-> FALSE, last_checked |-> FALSE, disallow |-> {}]
Parser(doc) == [parsed |-> TRUE, last_checked |-> TRUE, disallow |-> doc]
\* "rp = robotparser.RobotFileParser()": a parser that has parsed nothing yet
NewParser == [parsed |-> TRUE, last_checked |-> FALSE, disallow |-> {}]

\* RobotFileParser.can_fetch: False until something was parsed ("if not
\* self.last_checked: return False"), then by the rules
can_fetch(rp, u) == rp.last_checked /\ u.path \notin rp.disallow

\* the key of RobotsCache._cache
CacheKey(u) == <<u.scheme, u.netloc>>
Keys == {CacheKey(u) : u \in Urls}

\* a page body: blank is the empty string, nodes the item nodes of the page
EmptyBody == [blank |-> TRUE, nodes |-> <<>>]

\* the value of fetch: None or the text of the page
NoneValue == [isNone |-> TRUE, body |-> EmptyBody]
Html(b) == [isNone |-> FALSE, body |-> b]

RETRYABLE_STATUS == {429, 500, 502, 503, 504}
Statuses == {200, 404, 429, 503}

\* what session.get can end in: a response (status, Content-Type header, ""
\* for a response without the header) or an exception
Responses ==
    [kind : {"response"}, status : Statuses, ctype : {"text/html", "application/json", ""}]
    \cup [kind : {"TimeoutError", "ClientError", "Exception"}, status : {0}, ctype : {""}]

\* what the robots.txt request can end in
RobotsResponses ==
    [kind : {"response"}, status : {200}, doc : RobotsDocs]
    \cup [kind : {"response"}, status : {404}, doc : {{}}]
    \cup [kind : {"Exception"}, status : {0}, doc : {{}}]

-----------------------------------------------------------------------------
(* Strings and the helper functions *)

\* what str.strip() removes: space, tab, line feed
Whitespace == {"SP", "TAB", "LF"}
\* the class [\x00-\x1f\x7f] of sanitize_query
ControlChars == {"TAB", "LF", "NUL", "DEL"}

\* the prefixes without the tab
SAFE_CSV_PREFIXES_NoTab == {"+", "-", "=", "@"}

SAFE_CSV_PREFIXES == {"+", "-", "=", "@", "TAB"}

\* the length sanitize_query cuts a query to
MAX_QUERY_LEN == 200

\* c repeated n times
Rep(c, n) == [i \in 1 .. n |-> c]

\* the positions of s that hold no whitespace
NonWs(s) == {i \in 1 .. Len(s) : s[i] \notin Whitespace}
Minimum(S) == CHOOSE x \in S : \A y \in S : x <= y
Maximum(S) == CHOOSE x \in S : \A y \in S : y <= x

lstrip[s \in Seq(STRING)] ==
    IF NonWs(s) = {} THEN <<>> ELSE SubSeq(s, Minimum(NonWs(s)), Len(s))
rstrip[s \in Seq(STRING)] ==
    IF NonWs(s) = {} THEN <<>> ELSE SubSeq(s, 1, Maximum(NonWs(s)))

\* str.strip()
strip(s) == rstrip[lstrip[s]]

\* no cut at all
TruncateNot(q) == q

\* q[:200]
Truncate(q) == IF Len(q) > MAX_QUERY_LEN THEN SubSeq(q, 1, MAX_QUERY_LEN) ELSE q

\* re.sub(r"[\x00-\x1f\x7f]", " ", q)
ReplaceControl[q \in Seq(STRING)] ==
    [i \in 1 .. Len(q) |-> IF q[i] \in ControlChars THEN "SP" ELSE q[i]]

\* sanitize_query: ok = FALSE is the ValueError, value the string returned
sanitize_query(q) ==
    LET q1 == strip(q) IN
    IF q1 = <<>>
    THEN [ok |-> FALSE, value |-> <<>>]
    ELSE [ok |-> TRUE, value |-> ReplaceControl[Truncate(q1)]]

\* csv_safe
csv_safe(text) ==
    IF text = <<>> THEN text
    ELSE IF Head(text) \in SAFE_CSV_PREFIXES THEN <<"'">> \o text
    ELSE text

\* the characters urllib's quote_plus leaves as they are
Unreserved == {"a", "b", "q", "x", "-", ".", "_", "~"}

\* the two hex digits quote_plus writes after "%"
HexOf(c) ==
    CASE c = "&" -> <<"2", "6">>
      [] c = "#" -> <<"2", "3">>
      [] c = "?" -> <<"3", "F">>
      [] c = "=" -> <<"3", "D">>
      [] c = "+" -> <<"2", "B">>
      [] c = "@" -> <<"4", "0">>
      [] c = "'" -> <<"2", "7">>
      [] c = "/" -> <<"2", "F">>
      [] c = "TAB" -> <<"0", "9">>
      [] c = "LF" -> <<"0", "A">>
      [] c = "NUL" -> <<"0", "0">>
      [] c = "DEL" -> <<"7", "F">>

\* urllib.parse.quote_plus, one character
QuoteChar(c) ==
    IF c = "SP" THEN <<"+">>
    ELSE IF c \in Unreserved THEN <<c>>
    ELSE <<"%">> \o HexOf(c)

\* quote_plus of a string: the characters' encodings, in order
quote_plus[s \in Seq(STRING)] ==
    IF s = <<>> THEN <<>>
    ELSE IF Len(s) = 1 THEN QuoteChar(s[1])
    ELSE LET m == Len(s) \div 2 IN
         quote_plus[SubSeq(s, 1, m)] \o quote_plus[SubSeq(s, m + 1, Len(s))]

\* urlencode({'q': query})
urlencode_q(query) == <<"q", "=">> \o quote_plus[query]

\* a template is a sequence of characters and "{query}" placeholders ("BASE"
\* stands for the scheme, host and path, e.g. https://example.com/search)
Placeholder == "{query}"

\* template.replace('{query}', value)
replace_query[template \in Seq(STRING), value \in Seq(STRING)] ==
    IF template = <<>> THEN <<>>
    ELSE IF Len(template) = 1
         THEN IF template[1] = Placeholder THEN value ELSE template
    ELSE LET m == Len(template) \div 2 IN
         replace_query[SubSeq(template, 1, m), value]
         \o replace_query[SubSeq(template, m + 1, Len(template)), value]

\* "x in s" for a character x
Contains(s, x) == \E i \in 1 .. Len(s) : s[i] = x

\* 'q={' in template
HasQEqBrace(template) ==
    \E i \in 1 .. Len(template) - 2 :
        template[i] = "q" /\ template[i + 1] = "=" /\ template[i + 2] = Placeholder

\* the branch of build_url that handles a template with "q={"
QFormUrl(template, query) == replace_query[template, query]

\* build_url: ok = FALSE is the ValueError of a template without {query}
build_url(template, query) ==
    IF ~Contains(template, Placeholder)
    THEN [ok |-> FALSE, value |-> <<>>]
    ELSE LET encoded == urlencode_q(query)
             base == replace_query[template, <<>>]
         IN [ok |-> TRUE,
             value |->
                IF HasQEqBrace(template) THEN QFormUrl(template, query)
                ELSE IF Contains(base, "?")
                     THEN IF base # <<>> /\ base[Len(base)] \in {"?", "&"}
                          THEN base \o encoded
                          ELSE base \o <<"&">> \o encoded
                     ELSE base \o <<"?">> \o encoded]

-----------------------------------------------------------------------------
(* PersonScraper.fetch *)

\* "status in (429, 500, 502, 503, 504)": the response raises ClientResponseError
IsRetryable(r) == r.kind = "response" /\ r.status \in RETRYABLE_STATUS

\* "resp.content_type": the content part of the Content-Type header; aiohttp
\* gives "application/octet-stream" for a response without the header
content_type(r) == IF r.ctype = "" THEN "application/octet-stream" ELSE r.ctype

\* a fetch without the test of the content type
IsNonHtmlNever(r) == FALSE

\* "resp.content_type and 'text/html' not in resp.content_type"
IsNonHtml(r) == content_type(r) # "" /\ content_type(r) # "text/html"

\* "for attempt in range(1, self.cfg.max_retries + 1)"
AttemptRange(n) == 1 .. n

\* "if attempt < self.cfg.max_retries": a backoff sleep follows the failed attempt
BackoffFollows(k, n) == k < n

\* a fetch that goes on to the loop whatever robots.txt says
DeniedReturnsNever(answer) == FALSE

\* "if not allowed: return None"
DeniedReturns(answer) == ~answer

\* a semaphore that lets every caller through
SemFreeAlways(s) == TRUE

\* asyncio.Semaphore.acquire goes on when the value is positive
SemFree(s) == s > 0

\* a block that keeps the slot when it is left
ReleaseNot(s) == s

\* the exit of "async with self.sem", by a return, an exception handled inside
\* the block or the end of the block: the slot is given back
Release(s) == s + 1

\* a backoff sleep inside the "async with self.sem" block
SlotDuringBackoffHeld == TRUE

\* "if attempt < self.cfg.max_retries: await sleep_backoff(...)" stands after
\* the "async with self.sem" block: the slot is not held during the sleep
SlotDuringBackoff == FALSE

\* fetch returns v through the return statement named site
Return(t, v, site) ==
    /\ pc' = [pc EXCEPT ![t] = "done"]
    /\ result' = [result EXCEPT ![t] = v]
    /\ retAt' = [retAt EXCEPT ![t] = site]

\* a loop that tries again without counting
NextAttemptSame(k) == k

\* "for attempt in range(...)": the value after k
NextAttempt(k) == k + 1

\* the head of the for loop with the loop variable about to become k
LoopHead(t, k) ==
    IF k \in AttemptRange(cfg.max_retries)
    THEN /\ pc' = [pc EXCEPT ![t] = "acquire"]
         /\ attempt' = [attempt EXCEPT ![t] = k]
         /\ UNCHANGED <<result, retAt>>
    ELSE /\ Return(t, NoneValue, "exhausted")
         /\ UNCHANGED attempt

\* fetch after robots.allowed has answered
AfterAllowed(t, answer) ==
    /\ allowed' = [allowed EXCEPT ![t] = IF answer THEN "True" ELSE "False"]
    /\ IF DeniedReturns(answer)
       THEN Return(t, NoneValue, "denied") /\ UNCHANGED attempt
       ELSE LoopHead(t, 1)

\* "rp = self._cache.get(key)" then "if not rp": the entry of the key is used
CacheHitNever(rp) == FALSE
CacheHit(rp) == rp.parsed

\* a cache that gets the new parser before the request is made
MissEntryNew(old) == NewParser

\* the entry of the key while the robots.txt request is in flight: the parser
\* is a local of allowed until "self._cache[key] = rp", after the parse
MissEntry(old) == old

\* fetch is called: up to the first await
FetchCall(t) ==
    /\ pc[t] = "start"
    /\ IF cfg.obey_robots
       THEN LET key == CacheKey(url[t]) IN
            IF CacheHit(cache[key])
            THEN \* "rp = self._cache.get(key)" finds the parser
                 /\ AfterAllowed(t, can_fetch(cache[key], url[t]))
                 /\ UNCHANGED <<robotsGets, cache>>
            ELSE \* "async with session.get(robots_url, ...)"
                 /\ pc' = [pc EXCEPT ![t] = "robots_get"]
                 /\ robotsGets' = [robotsGets EXCEPT ![key] = @ + 1]
                 /\ cache' = [cache EXCEPT ![key] = MissEntry(@)]
                 /\ UNCHANGED <<allowed, attempt, result, retAt>>
       ELSE LoopHead(t, 1) /\ UNCHANGED <<allowed, robotsGets, cache>>
    /\ UNCHANGED <<runVars, call>>
    /\ UNCHANGED <<cfg, tasks, url, sem, gets, sleeps, web, onlyRetryable, robotsFailed>>

\* the robots.txt request ends: parse, store in the cache, answer
RobotsDone(t, r) ==
    /\ pc[t] = "robots_get"
    /\ LET key == CacheKey(url[t])
           rp == IF r.kind = "response" /\ r.status = 200
                 THEN Parser(r.doc)
                 ELSE Parser({})
       IN /\ cache' = [cache EXCEPT ![key] = rp]
          /\ robotsFailed' = [robotsFailed EXCEPT ![key] = @ \/ ~(r.kind = "response" /\ r.status = 200)]
          /\ AfterAllowed(t, can_fetch(rp, url[t]))
    /\ UNCHANGED <<runVars, call>>
    /\ UNCHANGED <<cfg, tasks, url, sem, gets, sleeps, robotsGets, web, onlyRetryable>>

\* "async with self.sem": the slot is taken; then the rate delay or the request
SemAcquire(t) ==
    /\ pc[t] = "acquire"
    /\ SemFree(sem)
    /\ sem' = sem - 1
    /\ IF cfg.rate_delay_s # 0
       THEN pc' = [pc EXCEPT ![t] = "rate_sleep"] /\ UNCHANGED gets
       ELSE /\ pc' = [pc EXCEPT ![t] = "get"]
            /\ gets' = [gets EXCEPT ![t] = @ + 1]
    /\ UNCHANGED <<runVars, call>>
    /\ UNCHANGED <<cfg, tasks, url, allowed, attempt, cache, result, retAt, sleeps,
                   robotsGets, robotsFailed, web, onlyRetryable>>

\* "await asyncio.sleep(self.cfg.rate_delay_s)" ends: the request is issued
RateSleepDone(t) ==
    /\ pc[t] = "rate_sleep"
    /\ pc' = [pc EXCEPT ![t] = "get"]
    /\ gets' = [gets EXCEPT ![t] = @ + 1]
    /\ UNCHANGED <<runVars, call>>
    /\ UNCHANGED <<cfg, tasks, url, allowed, attempt, sem, cache, result, retAt, sleeps,
                   robotsGets, robotsFailed, web, onlyRetryable>>

\* the request ends in r (and, for a page, its text b): classify, leave the
\* semaphore block, then return, sleep or go round the loop
GetDone(t, r, b) ==
    /\ pc[t] = "get"
    /\ sem' = IF /\ SlotDuringBackoff
                 /\ ~(r.kind = "response" /\ ~IsRetryable(r))
                 /\ BackoffFollows(attempt[t], cfg.max_retries)
              THEN sem
              ELSE Release(sem)
    /\ onlyRetryable' = (onlyRetryable /\ IsRetryable(r))
    /\ IF r.kind = "response" /\ ~IsRetryable(r)
       THEN /\ IF IsNonHtml(r)
               THEN Return(t, NoneValue, "nonhtml")
               ELSE Return(t, Html(b), "html")
            /\ UNCHANGED <<attempt, sleeps>>
       ELSE \* an exception: logged, the loop goes on
            IF BackoffFollows(attempt[t], cfg.max_retries)
            THEN /\ pc' = [pc EXCEPT ![t] = "backoff"]
                 /\ sleeps' = [sleeps EXCEPT ![t] = @ + 1]
                 /\ UNCHANGED <<attempt, result, retAt>>
            ELSE /\ LoopHead(t, NextAttempt(attempt[t]))
                 /\ UNCHANGED sleeps
    /\ UNCHANGED <<runVars, call>>
    /\ UNCHANGED <<cfg, tasks, url, allowed, cache, gets, robotsGets, robotsFailed, web>>

\* sleep_backoff ends: the next iteration of the loop
BackoffDone(t) ==
    /\ pc[t] = "backoff"
    /\ sem' = IF SlotDuringBackoff THEN Release(sem) ELSE sem
    /\ LoopHead(t, NextAttempt(attempt[t]))
    /\ UNCHANGED <<runVars, call>>
    /\ UNCHANGED <<cfg, tasks, url, allowed, cache, gets, sleeps, robotsGets, robotsFailed, web, onlyRetryable>>

-----------------------------------------------------------------------------
(* Pages, selectors and PersonScraper.parse_items *)

Selectors == {".title", ".name", "a[href]"}

\* what a selector finds under an item node: nothing, or an element with its
\* attributes and its text (get_text(strip=True))
NoElem == [found |-> FALSE, attrs |-> <<>>, text |-> <<>>]
Elem(attrs, text) == [found |-> TRUE, attrs |-> attrs, text |-> text]
Href(v) == "href" :> v
Src(v) == "src" :> v
NoAttrs == <<>>

\* found.has_attr(a)
has_attr(e, a) == a \in DOMAIN e.attrs

\* selector_find: isNone = TRUE is None. An item node is the function from a
\* selector to what select_one / find returns for it under the node.
selector_find(node, selector) ==
    IF selector = "" THEN [isNone |-> TRUE, value |-> <<>>]
    ELSE LET found == node[selector] IN
         IF ~found.found THEN [isNone |-> TRUE, value |-> <<>>]
         ELSE IF has_attr(found, "href") THEN [isNone |-> FALSE, value |-> found.attrs["href"]]
         ELSE IF has_attr(found, "src") THEN [isNone |-> FALSE, value |-> found.attrs["src"]]
         ELSE [isNone |-> FALSE, value |-> found.text]

\* re.sub(r"\s+", " ", raw)
CollapseWs[s \in Seq(STRING)] ==
    IF s = <<>> THEN <<>>
    ELSE IF Head(s) \in Whitespace
         THEN <<"SP">> \o CollapseWs[lstrip[s]]
         ELSE <<Head(s)>> \o CollapseWs[Tail(s)]

\* "selector_find(node, field_sel) or ''", then the whitespace normalization
FieldValue(node, selector, normalize) ==
    LET r == selector_find(node, selector)
        raw == IF r.isNone THEN <<>> ELSE r.value
    IN IF normalize THEN strip(CollapseWs[raw]) ELSE raw

\* the loop "for k, v in list(item.items()): item[k] = csv_safe(v)"
SanitizeItem(item) == [k \in DOMAIN item |-> csv_safe(item[k])]

\* an item whose source is left empty
SourceOfNone(target) == <<>>

\* 'item = {"source": target.name}'
SourceOf(target) == target.name

\* the item parse_items yields for one node
ParseNode(node, target, normalize) ==
    SanitizeItem(
        [k \in {"source"} \cup DOMAIN target.fields |->
            IF k \in DOMAIN target.fields
            THEN FieldValue(node, target.fields[k], normalize)
            ELSE SourceOf(target)])

\* parse_items as a whole: the items of the nodes, in document order
parse_items(body, target, normalize) ==
    [i \in 1 .. Len(body.nodes) |-> ParseNode(body.nodes[i], target, normalize)]

\* a filter that lets every item through
AnyFieldAlways(item) == TRUE

\* "any(v for k, v in item.items() if k != 'source')"
AnyField(item) == \E k \in DOMAIN item : k # "source" /\ item[k] # <<>>

-----------------------------------------------------------------------------
(* PersonScraper.search and run_to_csv *)

fieldnames == <<"source", "title", "full_name", "username", "link", "snippet">>

HeaderLine == [kind |-> "header", cells |-> [i \in 1 .. Len(fieldnames) |-> <<fieldnames[i]>>]]
\* a row that leaves out the columns the item lacks
RowLineSparse(item) ==
    [kind |-> "row",
     cells |-> [i \in {j \in 1 .. Len(fieldnames) : fieldnames[j] \in DOMAIN item} |->
                   item[fieldnames[i]]]]

\* "row = {k: item.get(k, '') for k in fieldnames}"
RowLine(item) ==
    [kind |-> "row",
     cells |-> [i \in 1 .. Len(fieldnames) |->
                   IF fieldnames[i] \in DOMAIN item THEN item[fieldnames[i]] ELSE <<>>]]
\* what the file held before the run
OldLine == [kind |-> "old", cells |-> <<>>]

\* urlparse of a built url: its first token is the scheme, host and path
NoUrl == [scheme |-> "", netloc |-> "", path |-> ""]
urlparse(text) ==
    IF text # <<>> /\ Head(text) = "https://hostA/search"
    THEN [scheme |-> "https", netloc |-> "hostA", path |-> "/search"]
    ELSE IF text # <<>> /\ Head(text) = "https://hostB/search"
    THEN [scheme |-> "https", netloc |-> "hostB", path |-> "/search"]
    ELSE NoUrl

\* a failed fetch that leaves search by an exception
ContinueToRaised == "raised"

\* "if not html: continue": back to the head of the loop
ContinueTo == "target"

\* a row that is written but not counted
CountRowNot(n) == n

\* "rows += 1"
CountRow(n) == n + 1

\* the ValueError of sanitize_query or build_url leaves search, run_to_csv,
\* main_async and main, which catches KeyboardInterrupt only
Raise ==
    /\ rpc' = "raised"
    /\ exitStatus' = 1

\* a file opened for appending keeps what it held
OpenAppend(old) == old

\* "open(self.cfg.output_csv, 'w', ...)": the file is truncated
OpenW(old) == <<>>

\* run_to_csv is entered: the file is opened for writing and gets its header
RunOpen ==
    /\ rpc = "start"
    /\ rpc' = "search"
    /\ rows' = 0
    /\ csvFile' = IF cfg.output_csv THEN Append(OpenW(csvFile), HeaderLine) ELSE csvFile
    /\ UNCHANGED <<fetchVars, ua, inputQuery, targets, cleanQuery, ti, urlText, pending,
                   exitStatus, fetchLog, yielded, call>>

\* search is entered: "query = sanitize_query(query)"
SearchStart ==
    /\ rpc = "search"
    /\ LET r == sanitize_query(inputQuery) IN
       IF r.ok
       THEN /\ cleanQuery' = r.value
            /\ ti' = 1
            /\ rpc' = "target"
            /\ UNCHANGED exitStatus
       ELSE /\ Raise
            /\ UNCHANGED <<cleanQuery, ti>>
    /\ UNCHANGED <<fetchVars, ua, inputQuery, targets, urlText, pending, csvFile, rows,
                   fetchLog, yielded, call>>

\* "for target in self.targets": the url is built and fetch is called, or the
\* loop ends, run_to_csv returns rows and main_async returns 0
TargetStep(t) ==
    /\ rpc = "target"
    /\ IF ti > Len(targets)
       THEN /\ rpc' = "done"
            /\ exitStatus' = 0
            /\ UNCHANGED <<urlText, fetchLog, ua, url, pc, allowed, attempt, result, retAt,
                           gets, sleeps>>
       ELSE LET u == build_url(targets[ti].url_template, cleanQuery) IN
            IF u.ok
            THEN /\ urlText' = u.value
                 /\ fetchLog' = Append(fetchLog, [target |-> targets[ti].name, url |-> u.value])
                 /\ IF cfg.busqueda_intensiva
                    THEN ua' \in cfg.user_agents
                    ELSE UNCHANGED ua
                 /\ rpc' = "fetch"
                 /\ url' = [url EXCEPT ![t] = urlparse(u.value)]
                 /\ pc' = [pc EXCEPT ![t] = "start"]
                 /\ allowed' = [allowed EXCEPT ![t] = "unset"]
                 /\ attempt' = [attempt EXCEPT ![t] = 0]
                 /\ result' = [result EXCEPT ![t] = NoneValue]
                 /\ retAt' = [retAt EXCEPT ![t] = "none"]
                 /\ gets' = [gets EXCEPT ![t] = 0]
                 /\ sleeps' = [sleeps EXCEPT ![t] = 0]
                 /\ UNCHANGED exitStatus
            ELSE /\ Raise
                 /\ UNCHANGED <<urlText, fetchLog, ua, url, pc, allowed, attempt, result, retAt,
                                gets, sleeps>>
    /\ UNCHANGED <<cfg, tasks, sem, cache, robotsGets, robotsFailed, web, onlyRetryable,
                   inputQuery, targets, cleanQuery, ti, pending, csvFile, rows, yielded, call>>

\* fetch has returned: "if not html: continue", else parse_items starts
FetchReturn(t) ==
    /\ rpc = "fetch"
    /\ pc[t] = "done"
    /\ pc' = [pc EXCEPT ![t] = "idle"]
    /\ IF result[t].isNone \/ result[t].body.blank
       THEN /\ ti' = ti + 1
            /\ rpc' = ContinueTo
            /\ UNCHANGED pending
       ELSE /\ pending' = result[t].body.nodes
            /\ rpc' = "items"
            /\ UNCHANGED ti
    /\ UNCHANGED <<cfg, tasks, url, allowed, attempt, sem, cache, result, retAt, gets, sleeps,
                   robotsGets, robotsFailed, web, onlyRetryable,
                   ua, inputQuery, targets, cleanQuery, urlText, csvFile, rows, exitStatus,
                   fetchLog, yielded, call>>

\* a generator that visits the nodes from the last one
NextNodeLast(nodes) == nodes[Len(nodes)]

\* "for node in soup.select(target.item_selector)": the nodes in document order
NextNode(nodes) == Head(nodes)

\* the next item of parse_items: filtered, yielded, written and counted; or
\* the generator is exhausted and the loop takes the next target
ItemStep ==
    /\ rpc = "items"
    /\ IF pending = <<>>
       THEN /\ ti' = ti + 1
            /\ rpc' = "target"
            /\ UNCHANGED <<pending, csvFile, rows, yielded>>
       ELSE LET item == ParseNode(NextNode(pending), targets[ti], cfg.normalize_whitespace) IN
            /\ pending' = Tail(pending)
            /\ IF AnyField(item)
               THEN /\ yielded' = Append(yielded, [target |-> ti, left |-> Len(pending),
                                                   fetches |-> Len(fetchLog), item |-> item])
                    /\ csvFile' = IF cfg.output_csv
                                  THEN Append(csvFile, RowLine(item))
                                  ELSE csvFile
                    /\ rows' = CountRow(rows)
               ELSE UNCHANGED <<csvFile, rows, yielded>>
            /\ UNCHANGED <<ti, rpc>>
    /\ UNCHANGED <<fetchVars, ua, inputQuery, targets, cleanQuery, urlText, exitStatus,
                   fetchLog, call>>

-----------------------------------------------------------------------------
(* Inputs *)

DEFAULT_UA == "Mozilla/5.0"

\* the defaults of ScraperConfig for what fetch does not read
FetchConfigs ==
    [concurrency : 1 .. MaxConcurrency, max_retries : 0 .. MaxRetries,
     obey_robots : BOOLEAN, rate_delay_s : {0, 1},
     output_csv : {TRUE}, normalize_whitespace : {TRUE},
     busqueda_intensiva : {FALSE}, user_agents : {{DEFAULT_UA}}]

\* output_csv: TRUE is a path, FALSE is None
RunConfigs ==
    [concurrency : {1}, max_retries : 0 .. MaxRetries,
     obey_robots : BOOLEAN, rate_delay_s : {1},
     output_csv : BOOLEAN, normalize_whitespace : BOOLEAN,
     busqueda_intensiva : {TRUE}, user_agents : {{DEFAULT_UA}}]

NodeFull ==
    (".title" :> Elem(NoAttrs, <<"a">>)) @@ (".name" :> Elem(NoAttrs, <<"b">>))
    @@ ("a[href]" :> Elem(Href(<<"x">>), <<"a">>))
NodeFull2 ==
    (".title" :> Elem(NoAttrs, <<"b">>)) @@ (".name" :> Elem(NoAttrs, <<"a">>))
    @@ ("a[href]" :> Elem(Href(<<"x">>), <<"b">>))
NodeEmpty == [s \in Selectors |-> NoElem]
NodeInj ==
    (".title" :> Elem(NoAttrs, <<"=", "a">>)) @@ (".name" :> NoElem)
    @@ ("a[href]" :> Elem(Href(<<>>), <<"a">>))
NodeWs ==
    (".title" :> NoElem) @@ (".name" :> Elem(Src(<<"SP">>), <<>>))
    @@ ("a[href]" :> Elem(Href(<<"TAB", "a", "SP", "SP", "b">>), <<>>))

Page(nodes) == [blank |-> FALSE, nodes |-> nodes]

RunBodies ==
    {EmptyBody, Page(<<NodeFull, NodeFull2>>), Page(<<NodeEmpty, NodeInj>>), Page(<<NodeWs>>)}

TargetPool ==
    << [name |-> <<"a">>,
        url_template |-> <<"https://hostA/search", Placeholder>>,
        item_selector |-> ".result",
        fields |-> [title |-> ".title", full_name |-> ".name", link |-> "a[href]"]],
       [name |-> <<"-", "b">>,
        url_template |-> <<"https://hostA/search", "?", "q", "=", Placeholder>>,
        item_selector |-> ".result",
        fields |-> [title |-> ".title", extra |-> ".name"]] >>

\* the first n targets, taken round the pool
TargetList(n) == [i \in 1 .. n |-> TargetPool[((i - 1) % Len(TargetPool)) + 1]]

RunQueries ==
    { <<>>, <<"SP">>, <<"NUL">>, <<"a">>, <<"SP", "a", "LF">>, <<"a", "&", "b">>,
      Rep("a", MAX_QUERY_LEN + 50) }

-----------------------------------------------------------------------------
(* Initial states *)

\* PersonScraper.__init__ / __aenter__
InitFetch(ts, pc0) ==
    /\ tasks = ts
    /\ pc = [t \in ts |-> pc0]
    /\ allowed = [t \in ts |-> "unset"]
    /\ attempt = [t \in ts |-> 0]
    /\ sem = cfg.concurrency
    /\ cache = [k \in Keys |-> NoParser]
    /\ result = [t \in ts |-> NoneValue]
    /\ retAt = [t \in ts |-> "none"]
    /\ gets = [t \in ts |-> 0]
    /\ sleeps = [t \in ts |-> 0]
    /\ robotsGets = [k \in Keys |-> 0]
    /\ robotsFailed = [k \in Keys |-> FALSE]
    /\ onlyRetryable = TRUE
    /\ ua \in cfg.user_agents

\* no run_to_csv call
InitNoRun ==
    /\ inputQuery = <<>>
    /\ targets = <<>>
    /\ rpc = "none"
    /\ cleanQuery = <<>>
    /\ ti = 0
    /\ urlText = <<>>
    /\ pending = <<>>
    /\ csvFile = <<OldLine>>
    /\ rows = 0
    /\ exitStatus = -1
    /\ fetchLog = <<>>
    /\ yielded = <<>>

NoCall == [fn |-> "none", args |-> <<>>, ret |-> <<>>]

-----------------------------------------------------------------------------
(* Spec: concurrent fetch calls on one PersonScraper *)

\* the tasks differ by their urls only: the urls of hostA are listed first
Init ==
    /\ cfg \in FetchConfigs
    /\ InitFetch(1 .. NTasks, "start")
    /\ url \in {u \in [1 .. NTasks -> Urls] :
                   \A i, j \in 1 .. NTasks :
                       (i < j /\ u[i].netloc = "hostB") => u[j].netloc = "hostB"}
    /\ web = {Page(<<>>)}
    /\ InitNoRun
    /\ call = NoCall

Next ==
    \/ \E t \in tasks : FetchCall(t)
    \/ \E t \in tasks, r \in RobotsResponses : RobotsDone(t, r)
    \/ \E t \in tasks : SemAcquire(t)
    \/ \E t \in tasks : RateSleepDone(t)
    \/ \E t \in tasks, r \in Responses, b \in web : GetDone(t, r, b)
    \/ \E t \in tasks : BackoffDone(t)

Spec == Init /\ [][Next]_vars

-----------------------------------------------------------------------------
(* SpecAllowed: concurrent callers of RobotsCache.allowed *)

\* fetch calls with obey_robots whose loop is empty: each is its call of
\* robots.allowed and the return that follows
InitAllowed ==
    /\ Init
    /\ cfg.obey_robots
    /\ cfg.max_retries = 0

NextAllowed ==
    \/ \E t \in tasks : FetchCall(t)
    \/ \E t \in tasks, r \in RobotsResponses : RobotsDone(t, r)

SpecAllowed == InitAllowed /\ [][NextAllowed]_vars

-----------------------------------------------------------------------------
(* SpecRun: one run of main: run_to_csv over the targets *)

\* the bound on the number of targets of a run
MaxTargets == 2

InitRun ==
    /\ cfg \in RunConfigs
    /\ InitFetch({1}, "idle")
    /\ url = [t \in {1} |-> NoUrl]
    /\ web = RunBodies
    /\ inputQuery \in RunQueries
    /\ targets \in {TargetList(n) : n \in 0 .. MaxTargets}
    /\ rpc = "start"
    /\ cleanQuery = <<>>
    /\ ti = 0
    /\ urlText = <<>>
    /\ pending = <<>>
    /\ csvFile = <<OldLine>>
    /\ rows = 0
    /\ exitStatus = -1
    /\ fetchLog = <<>>
    /\ yielded = <<>>
    /\ call = NoCall

NextRun ==
    \/ RunOpen
    \/ SearchStart
    \/ \E t \in tasks : TargetStep(t)
    \/ \E t \in tasks : FetchCall(t)
    \/ \E t \in tasks, r \in RobotsResponses : RobotsDone(t, r)
    \/ \E t \in tasks : SemAcquire(t)
    \/ \E t \in tasks : RateSleepDone(t)
    \/ \E t \in tasks, r \in Responses, b \in web : GetDone(t, r, b)
    \/ \E t \in tasks : BackoffDone(t)
    \/ \E t \in tasks : FetchReturn(t)
    \/ ItemStep

SpecRun == InitRun /\ [][NextRun]_vars

\* asyncio.run drives the one coroutine of the run until it returns: every
\* await of the run (the requests have a timeout, the sleeps are finite) ends
SpecRunLive == InitRun /\ [][NextRun]_vars /\ WF_vars(NextRun)

-----------------------------------------------------------------------------
(* SpecRunInt: the run with an interrupt from outside *)

\* an except clause that catches the cancellation: the fetch goes on
UnwindCaught(p) == p

\* the position of a fetch after the cancellation raised at its await: it is
\* a BaseException, which no "except Exception" of fetch or of
\* RobotsCache.allowed catches, so it leaves the coroutine
Unwind(p) == IF p \in {"idle", "done"} THEN p ELSE "cancelled"

\* SIGINT while asyncio.run drives the run: the coroutine is cancelled where
\* it waits, "async with self.sem" gives its slot back, "with open" closes the
\* file with what was written, the session is closed, main returns 130
Interrupt ==
    /\ rpc \in {"start", "search", "target", "fetch", "items"}
    /\ rpc' = "cancelled"
    /\ exitStatus' = 130
    /\ pc' = [t \in tasks |-> Unwind(pc[t])]
    /\ sem' = cfg.concurrency - Cardinality({t \in tasks : pc'[t] \in {"rate_sleep", "get"}})
    /\ pending' = <<>>
    /\ UNCHANGED <<cfg, tasks, url, allowed, attempt, cache, result, retAt, gets, sleeps,
                   robotsGets, robotsFailed, web, onlyRetryable,
                   ua, inputQuery, targets, cleanQuery, ti, urlText, csvFile, rows,
                   fetchLog, yielded, call>>

NextRunInt ==
    \/ NextRun
    \/ Interrupt

SpecRunInt == InitRun /\ [][NextRunInt]_vars

-----------------------------------------------------------------------------
(* SpecPure: single calls of the helper functions and of parse_items *)

\* the bound on the padding of a long query
MaxPad == 1
\* the bound on the length of a short string
MaxText == 2
\* the bound on the number of item nodes of a page
MaxNodes == 2

\* the sequences over S of length at most n
SeqsUpTo(S, n) == UNION {[1 .. k -> S] : k \in 0 .. n}

\* queries around the length limit: padding, a run of one character, padding
PureQueries ==
    { Rep(a, i) \o Rep(b, n) \o Rep(c, j) :
        a \in {"SP", "NUL", "a"}, c \in {"TAB", "DEL", "a"}, b \in {"a", "NUL", "SP", "&"},
        i \in 0 .. MaxPad, j \in 0 .. MaxPad,
        n \in {0, 1, MAX_QUERY_LEN - 1, MAX_QUERY_LEN, MAX_QUERY_LEN + 1, MAX_QUERY_LEN + 50} }

UrlBase == "https://hostA/search"

Templates ==
    { <<UrlBase, "?", "q", "=", Placeholder>>,
      <<UrlBase, "?", "x", "=", "a", "&", "q", "=", Placeholder>>,
      <<UrlBase, Placeholder>>,
      <<UrlBase, "?", Placeholder>>,
      <<UrlBase, "?", "x", "=", "a", Placeholder>>,
      <<UrlBase, "?", "x", "=", "a", "&", Placeholder>>,
      <<UrlBase>> }

QueryChars == {"a", "SP", "&", "#", "?", "=", "+"}

\* the values sanitize_query returns for the short queries
SanitizedQueries ==
    { sanitize_query(s).value : s \in {x \in SeqsUpTo(QueryChars, MaxText) : sanitize_query(x).ok} }

FieldTexts == SeqsUpTo({"a", "+", "-", "=", "@", "TAB", "'", "SP"}, MaxText)

PureBodies ==
    {EmptyBody} \cup {Page(ns) : ns \in SeqsUpTo({NodeFull, NodeEmpty, NodeInj, NodeWs}, MaxNodes)}

InitPure ==
    /\ cfg \in {c \in FetchConfigs : c.concurrency = 1 /\ c.max_retries = 0
                                     /\ c.obey_robots /\ c.rate_delay_s = 0}
    /\ InitFetch({}, "idle")
    /\ url = <<>>
    /\ web = {}
    /\ InitNoRun
    /\ call = NoCall

\* the record of a call
CallOf(fn, args, ret) == [fn |-> fn, args |-> args, ret |-> ret]

CallSanitizeQuery ==
    /\ call = NoCall
    /\ \E s \in PureQueries : call' = CallOf("sanitize_query", <<s>>, sanitize_query(s))
    /\ UNCHANGED <<fetchVars, runVars>>

CallBuildUrl ==
    /\ call = NoCall
    /\ \E tpl \in Templates, s \in SanitizedQueries :
          call' = CallOf("build_url", <<tpl, s>>, build_url(tpl, s))
    /\ UNCHANGED <<fetchVars, runVars>>

CallCsvSafe ==
    /\ call = NoCall
    /\ \E s \in FieldTexts : call' = CallOf("csv_safe", <<s>>, csv_safe(s))
    /\ UNCHANGED <<fetchVars, runVars>>

CallParseItems ==
    /\ call = NoCall
    /\ \E b \in PureBodies, i \in 1 .. Len(TargetPool), nz \in BOOLEAN :
          call' = CallOf("parse_items", <<b, TargetPool[i], nz>>,
                         parse_items(b, TargetPool[i], nz))
    /\ UNCHANGED <<fetchVars, runVars>>

\* random.random(): a float of [0, 1), in thousandths
Randoms == {0, 500, 999}
\* cfg.backoff_base in tenths of a second (the default is 0.5)
BackoffBases == {5, 10}
\* the values of max_retries of the fetch that sleeps
SleepRetries == 0 .. MaxRetries + 2

\* a delay that doubles once more than the code's
sleep_backoff_Twice(k, base, r) ==
    (base * (2 ^ k)) * (700 + (r * 600) \div 1000)

\* sleep_backoff: "delay = base * (2 ** (attempt - 1))", then
\* "delay * (0.7 + random.random() * 0.6)"; the delay slept, in units of
\* 1/10000 s, for the value r of random.random()
sleep_backoff(k, base, r) ==
    (base * (2 ^ (k - 1))) * (700 + (r * 600) \div 1000)

\* the call of sleep_backoff that fetch makes with max_retries = n after its
\* failed attempt: "for attempt in range(1, n + 1)", "if attempt < n"
CallSleepBackoff ==
    /\ call = NoCall
    /\ \E n \in SleepRetries, base \in BackoffBases, r \in Randoms :
       \E k \in AttemptRange(n) :
          /\ BackoffFollows(k, n)
          /\ call' = CallOf("sleep_backoff", <<k, base, n>>,
                            sleep_backoff(k, base, r))
    /\ UNCHANGED <<fetchVars, runVars>>

NextPure ==
    \/ CallSanitizeQuery
    \/ CallBuildUrl
    \/ CallCsvSafe
    \/ CallParseItems
    \/ CallSleepBackoff

SpecPure == InitPure /\ [][NextPure]_vars

-----------------------------------------------------------------------------
(* Claims about fetch and RobotsCache, checked under Spec *)

\* the tasks with a page request in flight
PageGetsInFlight == {t \in tasks : pc[t] = "get"}
\* the tasks with a robots.txt request in flight
RobotsGetsInFlight == {t \in tasks : pc[t] = "robots_get"}

\* C1: a fetch of an allowed url that got only retryable statuses and has
\* returned the failure of the exhausted loop has issued exactly
\* max_retries + 1 requests and slept exactly max_retries backoff sleeps.
C1_RetryBudget ==
    \A t \in tasks :
        (pc[t] = "done" /\ retAt[t] = "exhausted" /\ onlyRetryable /\ gets[t] >= 1)
            => (gets[t] = cfg.max_retries + 1 /\ sleeps[t] = cfg.max_retries)

\* C2: once robots.txt has denied the url of a fetch made with obey_robots,
\* the fetch has returned None through the denial return, and it has issued no
\* request for the url, entered no attempt, slept no backoff; if every task was
\* denied no slot of the semaphore was ever taken.
C2_DeniedNoFetch ==
    /\ \A t \in tasks :
          allowed[t] = "False"
              => /\ cfg.obey_robots
                 /\ pc[t] = "done" /\ retAt[t] = "denied" /\ result[t].isNone
                 /\ gets[t] = 0 /\ attempt[t] = 0 /\ sleeps[t] = 0
    /\ (\A t \in tasks : allowed[t] = "False") => sem = cfg.concurrency

\* C2 witness: a task denied after its own robots.txt request
C2_Witness ==
    \E t \in tasks :
        /\ allowed[t] = "False" /\ pc[t] = "done"
        /\ robotsGets[CacheKey(url[t])] >= 1

\* C3: no host has had more than one robots.txt request.
C3_OneRobotsFetchPerHost == \A k \in Keys : robotsGets[k] <= 1

\* C4 as stated: the requests in flight, robots.txt requests included, are at
\* most cfg.concurrency.
C4_AllGetsBounded ==
    Cardinality(PageGetsInFlight \cup RobotsGetsInFlight) <= cfg.concurrency

\* C4 amended: the page requests in flight (those issued inside the semaphore
\* block) are at most cfg.concurrency, whatever the hosts.
C4_PageGetsBounded == Cardinality(PageGetsInFlight) <= cfg.concurrency

\* C4 witness: with concurrency 1 one task has its request in flight while
\* another waits for the semaphore
C4_Witness ==
    /\ cfg.concurrency = 1
    /\ \E t1, t2 \in tasks : t1 # t2 /\ pc[t1] = "get" /\ pc[t2] = "acquire"

-----------------------------------------------------------------------------
(* Claims about search and run_to_csv, checked under SpecRun *)

\* a query with a character that str.strip() keeps
HasNonWhitespace(s) == \E i \in 1 .. Len(s) : s[i] \notin {"SP", "TAB", "LF"}

\* a query made only of whitespace and control characters
BlankQuery(s) == \A i \in 1 .. Len(s) : s[i] \in {"SP", "TAB", "LF", "NUL", "DEL"}

\* the data rows of the file
DataRows(file) == {i \in 1 .. Len(file) : file[i].kind = "row"}

\* C5: search calls fetch once for every target, in the order of the list,
\* whatever the earlier fetches returned: the k-th call is for the k-th
\* target, a run that is done has called fetch for every target, and no
\* outcome of a fetch raises out of the run.
C5_EveryTargetInOrder ==
    /\ HasNonWhitespace(inputQuery) => rpc # "raised"
    /\ \A i \in 1 .. Len(fetchLog) :
          i <= Len(targets) /\ fetchLog[i].target = targets[i].name
    /\ rpc \in {"fetch", "items"} => (Len(fetchLog) = ti /\ ti \in 1 .. Len(targets))
    /\ rpc = "target" => Len(fetchLog) = ti - 1
    /\ rpc = "done" => Len(fetchLog) = Len(targets)

\* C5 witness: the fetch of the first target failed after retryable statuses
\* and search has called fetch for the second target
C5_Witness ==
    /\ rpc = "fetch" /\ ti = 2 /\ Len(fetchLog) = 2
    /\ cfg.max_retries >= 1 /\ ~cfg.obey_robots
    /\ onlyRetryable /\ rows = 0

\* what C6 says of every state of a run
RunReportsRows ==
    /\ HasNonWhitespace(inputQuery) => (rpc # "raised" /\ exitStatus \in {-1, 0})
    /\ rpc = "done"
          => /\ exitStatus = 0
             /\ cfg.output_csv => rows = Cardinality(DataRows(csvFile))
    /\ (rpc = "done" /\ onlyRetryable) => (rows = 0 /\ DataRows(csvFile) = {})

\* C6: a run with a valid query never raises and ends: it gets to the state
\* where it is done; a run that is done has exit status 0 and returns as rows
\* the number of data rows it wrote to the file; if no response of the run
\* was anything but a retryable status the count is 0.
C6_RunReportsRows ==
    /\ []RunReportsRows
    /\ HasNonWhitespace(inputQuery) ~> (rpc = "done")

\* C6 witness: max_retries = 2, a retryable status on every attempt, the run
\* is done with rows = 0
C6_Witness ==
    /\ rpc = "done" /\ exitStatus = 0 /\ rows = 0
    /\ cfg.max_retries = 2 /\ cfg.output_csv
    /\ Len(targets) >= 1 /\ onlyRetryable
    /\ \E t \in tasks : retAt[t] = "exhausted" /\ gets[t] >= 1

\* C7: a run whose query is made only of whitespace and control characters
\* never gets past sanitize_query: no url is built and fetch is never called.
C7_BlankQueryRejected ==
    BlankQuery(inputQuery)
        => /\ rpc \in {"start", "search", "raised"}
           /\ urlText = <<>>
           /\ fetchLog = <<>>

-----------------------------------------------------------------------------
(* Claims about the helper functions, checked under SpecPure *)

\* the number of times c occurs in s
Count(s, c) == Cardinality({i \in 1 .. Len(s) : s[i] = c})

\* C8: for a query longer than 200 characters that is not all whitespace,
\* sanitize_query returns (no ValueError) a string of at most 200 characters:
\* the first 200 characters of the query without its leading and trailing
\* whitespace, each control character replaced by a space.
C8_LongQueryTruncated ==
    call.fn = "sanitize_query" =>
        LET s == call.args[1]
            r == call.ret
            keep == {i \in 1 .. Len(s) : s[i] \notin {"SP", "TAB", "LF"}}
        IN (Len(s) > 200 /\ keep # {}) =>
              LET first == CHOOSE i \in keep : \A j \in keep : i <= j
                  last == CHOOSE i \in keep : \A j \in keep : j <= i
                  n == last - first + 1
              IN /\ r.ok
                 /\ Len(r.value) <= 200
                 /\ Len(r.value) = IF n > 200 THEN 200 ELSE n
                 /\ \A i \in 1 .. Len(r.value) :
                       r.value[i] = IF s[first + i - 1] \in {"TAB", "LF", "NUL", "DEL"}
                                    THEN "SP"
                                    ELSE s[first + i - 1]

\* C8 witness: a query of 250 characters is used as its first 200
C8_Witness ==
    /\ call.fn = "sanitize_query"
    /\ Len(call.args[1]) = 250
    /\ call.ret.ok
    /\ call.ret.value = SubSeq(call.args[1], 1, 200)

\* C9: the url build_url returns holds no raw space, &, #, ? or = that comes
\* from the query: it has as many of each as the url built from the same
\* template for the query "a".
C9_QueryPercentEncoded ==
    (call.fn = "build_url" /\ call.ret.ok) =>
        \A c \in {"SP", "&", "#", "?", "="} :
            Count(call.ret.value, c) = Count(build_url(call.args[1], <<"a">>).value, c)

\* C10: csv_safe returns its argument with a single quote before it when the
\* argument begins with +, -, =, @ or a tab, and its argument otherwise; no
\* value of an item parse_items yields begins with one of the five.
C10_CsvSafe ==
    /\ call.fn = "csv_safe" =>
          call.ret = IF call.args[1] # <<>> /\ call.args[1][1] \in {"+", "-", "=", "@", "TAB"}
                     THEN <<"'">> \o call.args[1]
                     ELSE call.args[1]
    /\ call.fn = "parse_items" =>
          \A i \in 1 .. Len(call.ret) : \A k \in DOMAIN call.ret[i] :
              call.ret[i][k] = <<>> \/ call.ret[i][k][1] \notin {"+", "-", "=", "@", "TAB"}

\* C10 witness: without whitespace normalization an item gets a quoted value
\* that began with a tab
C10_Witness ==
    /\ call.fn = "parse_items"
    /\ ~call.args[3]
    /\ \E i \in 1 .. Len(call.ret) : \E k \in DOMAIN call.ret[i] :
          /\ Len(call.ret[i][k]) >= 2
          /\ call.ret[i][k][1] = "'" /\ call.ret[i][k][2] = "TAB"

-----------------------------------------------------------------------------
(* Claims about the records and the file, checked under SpecRun *)

\* the value with a quote before it when it begins with +, -, =, @ or a tab
Quoted(v) ==
    IF v # <<>> /\ v[1] \in {"+", "-", "=", "@", "TAB"} THEN <<"'">> \o v ELSE v

\* the selector finds under the node an element whose value (href, else src,
\* else text) is not blank
Populated(node, selector) ==
    LET el == node[selector] IN
    /\ el.found
    /\ IF "href" \in DOMAIN el.attrs THEN HasNonWhitespace(el.attrs["href"])
       ELSE IF "src" \in DOMAIN el.attrs THEN HasNonWhitespace(el.attrs["src"])
       ELSE HasNonWhitespace(el.text)

\* search has just finished target i, whose body had two item nodes with
\* every declared field populated
TwoFullNodes(i) ==
    /\ rpc = "target" /\ ti = i + 1 /\ i \in 1 .. Len(targets)
    /\ \A t \in tasks :
          /\ retAt[t] = "html"
          /\ Len(result[t].body.nodes) = 2
          /\ \A j \in 1 .. 2 : \A f \in DOMAIN targets[i].fields :
                Populated(result[t].body.nodes[j], targets[i].fields[f])

\* the items search yielded for target i
YieldedOf(i) == {k \in 1 .. Len(yielded) : yielded[k].target = i}

\* C11 as stated: every row the sink receives for a target has the target's
\* name in its source column, for every target name; a body with two item
\* nodes with every field populated gives exactly 2 rows.
C11_SourceIsName ==
    /\ \A k \in 1 .. Len(yielded) :
          /\ yielded[k].item["source"] = targets[yielded[k].target].name
          /\ cfg.output_csv => csvFile[k + 1].cells[1] = targets[yielded[k].target].name
    /\ \A i \in 1 .. Len(targets) : TwoFullNodes(i) => Cardinality(YieldedOf(i)) = 2

\* C11 as amended: every row the sink receives for a target that declares no
\* field named source has in its source column the target's name as csv_safe
\* returns it (the name, with a quote before it when it begins with +, -, =,
\* @ or a tab); a body with two item nodes with every field populated gives
\* exactly 2 rows.
C11_SourceIsSafeName ==
    /\ \A k \in 1 .. Len(yielded) :
          LET tg == targets[yielded[k].target] IN
          "source" \notin DOMAIN tg.fields
             => /\ yielded[k].item["source"] = Quoted(tg.name)
                /\ cfg.output_csv => /\ csvFile[k + 1].kind = "row"
                                     /\ csvFile[k + 1].cells[1] = Quoted(tg.name)
    /\ \A i \in 1 .. Len(targets) : TwoFullNodes(i) => Cardinality(YieldedOf(i)) = 2

\* C11 witness: the first target's body had two full nodes and gave two rows;
\* a row of the target named "-b" is in the file with the source '-b
C11_Witness ==
    /\ cfg.output_csv
    /\ Cardinality(YieldedOf(1)) = 2
    /\ \A k \in YieldedOf(1) : csvFile[k + 1].cells[1] = <<"a">>
    /\ \E k \in YieldedOf(2) :
          /\ targets[2].name = <<"-", "b">>
          /\ csvFile[k + 1].cells[1] = <<"'", "-", "b">>

\* the value the selector gives under the node is not the empty string: the
\* element is found and its href, else its src, else its text is not empty
\* (with normalize_whitespace: is not blank)
NonEmptyField(node, selector, normalize) ==
    LET el == node[selector]
        v == IF "href" \in DOMAIN el.attrs THEN el.attrs["href"]
             ELSE IF "src" \in DOMAIN el.attrs THEN el.attrs["src"]
             ELSE el.text
    IN el.found /\ (IF normalize THEN HasNonWhitespace(v) ELSE v # <<>>)

\* the nodes of the body of target ti that parse_items has visited and that
\* have a field that is not empty
VisitedNonEmpty(t) ==
    LET ns == result[t].body.nodes IN
    {j \in 1 .. Len(ns) - Len(pending) :
        \E f \in DOMAIN targets[ti].fields :
            NonEmptyField(ns[j], targets[ti].fields[f], cfg.normalize_whitespace)}

\* C12: no item whose every field other than source is empty is yielded,
\* written or counted (the count and the data rows of the file are the items
\* yielded), and every node visited that has a field that is not empty has
\* given a yielded item.
C12_EmptyRecordsDiscarded ==
    /\ \A k \in 1 .. Len(yielded) :
          \E f \in DOMAIN yielded[k].item : f # "source" /\ yielded[k].item[f] # <<>>
    /\ rows = Len(yielded)
    /\ (cfg.output_csv /\ rpc # "start") => Cardinality(DataRows(csvFile)) = Len(yielded)
    /\ rpc = "items" =>
          \A t \in tasks : Cardinality(YieldedOf(ti)) = Cardinality(VisitedNonEmpty(t))

\* C12 witness: a body of two nodes, the first with every field empty, has
\* been visited to its end and has given one item
C12_Witness ==
    /\ rpc = "items" /\ pending = <<>> /\ cfg.output_csv
    /\ Cardinality(YieldedOf(ti)) = 1
    /\ \A t \in tasks :
          /\ Len(result[t].body.nodes) = 2
          /\ \A sel \in Selectors : ~result[t].body.nodes[1][sel].found

-----------------------------------------------------------------------------
(* Claims about the outcomes of fetch: C13 checked under SpecRun, C14 under Spec *)

\* the response has a status that is not retried and a content type that is
\* not HTML
NonHtmlResponse(r) ==
    /\ r.kind = "response"
    /\ r.status \notin {429, 500, 502, 503, 504}
    /\ r.ctype \notin {"", "text/html"}

NonHtmlResponses == {r \in Responses : NonHtmlResponse(r)}

\* C13: the step of fetch that receives a response with a status that is not
\* retried and a content type that is not HTML returns None at once: no
\* backoff sleep is started, no further attempt is entered, whatever is left
\* of the budget; and a fetch that has returned so makes no request, attempt
\* or sleep afterwards: its caller takes the value, nothing else happens.
C13_NonHtmlEndsFetch ==
    /\ [][\A t \in tasks : pc[t] = "get" =>
          \A r \in NonHtmlResponses, b \in web :
            GetDone(t, r, b)
                => /\ pc'[t] = "done" /\ retAt'[t] = "nonhtml" /\ result'[t].isNone
                   /\ attempt'[t] = attempt[t]
                   /\ sleeps'[t] = sleeps[t]
                   /\ gets'[t] = gets[t]]_vars
    /\ [][\A t \in tasks :
            (pc[t] = "done" /\ retAt[t] = "nonhtml")
                => /\ pc'[t] \in {"done", "idle"} /\ retAt'[t] = "nonhtml"
                   /\ attempt'[t] = attempt[t]
                   /\ sleeps'[t] = sleeps[t]
                   /\ gets'[t] = gets[t]]_vars

\* C13 witness: with max_retries = 2 a fetch has returned on the non-HTML
\* response of its first attempt
C13_Witness ==
    \E t \in tasks :
        /\ pc[t] = "done" /\ retAt[t] = "nonhtml"
        /\ cfg.max_retries = 2 /\ attempt[t] = 1 /\ gets[t] = 1 /\ sleeps[t] = 0

\* C14: two fetches that have returned through different ones of the three
\* outcomes (denied by robots.txt, non-HTML content, retries exhausted) have
\* returned different values: the value tells the outcome.
C14_OutcomesDistinct ==
    \A t1, t2 \in tasks :
        (/\ pc[t1] = "done" /\ pc[t2] = "done"
         /\ retAt[t1] \in {"denied", "nonhtml", "exhausted"}
         /\ retAt[t2] \in {"denied", "nonhtml", "exhausted"}
         /\ retAt[t1] # retAt[t2])
            => result[t1] # result[t2]

\* C15: once a request for a host's robots.txt has failed (an exception or a
\* status other than 200), the entry stored for the host is the permissive
\* one, and it is the entry every later query for the host reads.
C15_FailureStaysPermissive ==
    \A k \in Keys : robotsFailed[k] => cache[k] = Parser({})

\* C16: with sequential callers at most one robots.txt request is issued per
\* (scheme, host); once an entry is stored it is never removed or replaced,
\* and a query that finds it issues no request and answers from it.
C16_CachedDecisionReused ==
    /\ [](\A k \in Keys : robotsGets[k] <= 1)
    /\ [][\A k \in Keys : cache[k].parsed => cache'[k] = cache[k]]_vars
    /\ [][\A t \in tasks :
            (FetchCall(t) /\ cfg.obey_robots /\ cache[CacheKey(url[t])].parsed)
                => /\ robotsGets' = robotsGets
                   /\ allowed'[t] = IF can_fetch(cache[CacheKey(url[t])], url[t])
                                     THEN "True" ELSE "False"]_vars

\* C16 witness: the query of the second target has been answered from the
\* entry that the query of the first target stored
C16_Witness ==
    /\ ti = 2 /\ rpc = "fetch" /\ Len(fetchLog) = 2
    /\ \E t \in tasks :
        /\ allowed[t] # "unset"
        /\ robotsGets[CacheKey(url[t])] = 1
        /\ cache[CacheKey(url[t])].parsed

\* C17: when a csv file is configured, from the opening of the file on its
\* first line is the header and no other line is; there is one data row per
\* yielded record, in order, and the row has the six columns of fieldnames,
\* each holding the record's value for that name or the empty string when the
\* record lacks the name.
C17_HeaderOnceRowsProjected ==
    (cfg.output_csv /\ rpc # "start") =>
        /\ Len(csvFile) = 1 + Len(yielded)
        /\ csvFile[1] = HeaderLine
        /\ \A k \in 1 .. Len(yielded) :
            /\ csvFile[k + 1].kind = "row"
            /\ DOMAIN csvFile[k + 1].cells = 1 .. 6
            /\ \A j \in 1 .. 6 :
                LET name == <<"source", "title", "full_name", "username", "link", "snippet">>[j]
                IN csvFile[k + 1].cells[j] =
                       IF name \in DOMAIN yielded[k].item
                       THEN yielded[k].item[name] ELSE <<>>

\* C17, the zero-row case is reached: a finished run that fetched and
\* produced no record left the header alone
C17_WitnessZeroRows ==
    /\ cfg.output_csv /\ rpc = "done" /\ rows = 0
    /\ Len(fetchLog) >= 1
    /\ csvFile = <<HeaderLine>>

\* C17 witness: a finished run wrote the row of a record that has a title and
\* lacks full_name, under the header
C17_Witness ==
    /\ cfg.output_csv /\ rpc = "done" /\ Len(csvFile) >= 2
    /\ \E k \in 1 .. Len(yielded) :
        /\ "full_name" \notin DOMAIN yielded[k].item
        /\ csvFile[k + 1].cells[3] = <<>>
        /\ csvFile[k + 1].cells[2] # <<>>

-----------------------------------------------------------------------------
(* Claims about the streaming of records, checked under SpecRun *)

\* the position of k among the members of the set of numbers S
Rank(S, k) == Cardinality({j \in S : j <= k})

\* C18: while the items of target ti are produced, the k-th item yielded for
\* it is the item of the k-th visited node that has a field that is not empty
\* (document order); every item was written when exactly as many fetches as
\* its target's number had been issued, so before the fetch of the next
\* target; items are yielded target after target; no node is left to visit
\* when a fetch is issued; and every yielded item is already written and
\* counted, so none is held back.
C18_Streamed ==
    /\ rpc = "items" =>
          \A t \in tasks : \A k \in YieldedOf(ti) :
              \E j \in VisitedNonEmpty(t) :
                  /\ Rank(VisitedNonEmpty(t), j) = Rank(YieldedOf(ti), k)
                  /\ yielded[k].item = ParseNode(result[t].body.nodes[j], targets[ti],
                                                 cfg.normalize_whitespace)
    /\ \A k \in 1 .. Len(yielded) : yielded[k].fetches = yielded[k].target
    /\ \A k1, k2 \in 1 .. Len(yielded) : k1 < k2 => yielded[k1].target <= yielded[k2].target
    /\ rpc # "items" => pending = <<>>
    /\ rows = Len(yielded)
    /\ (cfg.output_csv /\ rpc # "start") => Len(csvFile) = 1 + Len(yielded)

\* C18 witness: the fetch of the second target is issued after the two
\* different items of the first target's page were written in document order
C18_Witness ==
    /\ rpc = "fetch" /\ ti = 2 /\ Len(fetchLog) = 2 /\ cfg.output_csv
    /\ Len(yielded) = 2 /\ Len(csvFile) = 3
    /\ yielded[1].target = 1 /\ yielded[2].target = 1
    /\ yielded[1].item["title"] = <<"a">>
    /\ yielded[2].item["title"] = <<"b">>

-----------------------------------------------------------------------------
(* Claims about cancellation, checked under SpecRunInt *)

\* C20: the step of the interrupt and every step after it issue no page
\* request and no robots.txt request, start no fetch of a target, and leave
\* the file as it was: the header and the rows written before the interrupt
\* stay.
C20_CancelStopsFetches ==
    [][rpc' = "cancelled" =>
          /\ gets' = gets
          /\ robotsGets' = robotsGets
          /\ fetchLog' = fetchLog
          /\ csvFile' = csvFile
          /\ rows' = rows]_vars

\* C20 witness: the run was interrupted while a page request of the second
\* target was in flight, after a row of the first target had been written
C20_Witness ==
    /\ rpc = "cancelled" /\ exitStatus = 130
    /\ cfg.output_csv /\ Len(csvFile) >= 2 /\ csvFile[1] = HeaderLine
    /\ ti = 2 /\ Len(fetchLog) = 2
    /\ \E t \in tasks : pc[t] = "cancelled" /\ gets[t] = 1 /\ retAt[t] = "none"

-----------------------------------------------------------------------------
(* Claims about the attempts of fetch and the semaphore *)

\* C21: for every max_retries >= 0 a fetch of an allowed url asks the server
\* at least once before it gives up (so a server whose first answer is an
\* HTML page is heard), and a fetch that returned the page of its first
\* attempt made exactly one request and slept no backoff.
C21_FirstHtmlReturned ==
    \A t \in tasks :
        /\ (pc[t] = "done" /\ retAt[t] = "exhausted") => gets[t] >= 1
        /\ (pc[t] = "done" /\ retAt[t] = "html" /\ attempt[t] = 1)
              => (gets[t] = 1 /\ sleeps[t] = 0 /\ ~result[t].isNone)

\* the tasks inside the "async with self.sem" block of an attempt
InSemBlock == {t \in tasks : pc[t] \in {"rate_sleep", "get"}}

\* C22 as stated: the slots taken are those of the tasks with a page request
\* in flight; a task in a sleep of any kind holds none.
C22_SlotForRequestOnly ==
    sem = cfg.concurrency - Cardinality(PageGetsInFlight)

\* C22 amended: the slots taken are those of the tasks in their rate-delay
\* sleep or with their page request in flight; a task in a backoff sleep holds
\* none, so with every other task outside the block a slot is free.
C22_NoSlotInBackoff ==
    /\ sem = cfg.concurrency - Cardinality(InSemBlock)
    /\ (\A t \in tasks : pc[t] \notin {"rate_sleep", "get"}) => SemFree(sem)

\* C22 witness: with one slot, a task has its request in flight while another
\* task is in its backoff sleep
C22_Witness ==
    /\ cfg.concurrency = 1
    /\ \E t1, t2 \in tasks : pc[t1] = "backoff" /\ pc[t2] = "get" /\ sleeps[t1] >= 1

\* C25 as stated: whenever no page request is in flight every slot is free.
C25_AllFreeWithoutRequest ==
    (PageGetsInFlight = {}) => sem = cfg.concurrency

\* C25 amended: whenever no task is inside the semaphore block (neither in
\* its rate-delay sleep nor with its request in flight) every slot is free,
\* whichever way the attempts so far have left the block, and no more slots
\* are ever free than the semaphore was made with.
C25_NoSlotLeaked ==
    /\ (InSemBlock = {}) => sem = cfg.concurrency
    /\ sem \in 0 .. cfg.concurrency

\* C25 witness: every fetch has returned, one with a page, one after an
\* attempt that failed, and every slot is free
C25_Witness ==
    /\ \A t \in tasks : pc[t] = "done"
    /\ \E t1, t2 \in tasks :
        /\ retAt[t1] \in {"html", "nonhtml"} /\ gets[t1] >= 1
        /\ retAt[t2] = "exhausted" /\ gets[t2] >= 1
    /\ sem = cfg.concurrency

-----------------------------------------------------------------------------
(* Claims about concurrent callers of RobotsCache.allowed, checked under
   SpecAllowed *)

\* C23: under every interleaving of the callers, an entry of the cache is a
\* parser that has parsed (a document or the empty rules of the permissive
\* default), never one that has parsed nothing yet; and the step that answers
\* a caller answers with the decision of such a parser, the one the cache
\* then holds for the host of the caller's url.
C23_EntriesComplete ==
    /\ [](\A k \in Keys : cache[k].parsed => cache[k].last_checked)
    /\ [][\A t \in tasks :
            (allowed[t] = "unset" /\ allowed'[t] # "unset")
                => LET rp == cache'[CacheKey(url[t])]
                   IN /\ rp.parsed /\ rp.last_checked
                      /\ rp.disallow \in RobotsDocs
                      /\ allowed'[t] = IF url[t].path \in rp.disallow
                                        THEN "False" ELSE "True"]_vars

\* C23 witness: two callers for one host both missed the cache and both
\* requested robots.txt; the documents differed, each caller was answered by
\* its own, and the entry is the parser stored last
C23_Witness ==
    \E t1, t2 \in tasks :
        /\ t1 # t2 /\ CacheKey(url[t1]) = CacheKey(url[t2])
        /\ robotsGets[CacheKey(url[t1])] = 2
        /\ allowed[t1] = "True" /\ allowed[t2] = "False"
        /\ cache[CacheKey(url[t1])].last_checked

-----------------------------------------------------------------------------
(* Claims about sleep_backoff, checked under SpecPure *)

\* C24: the sleep after the failed attempt k of a fetch with max_retries = n
\* lasts between 0.7 and 1.3 times backoff_base * 2^(k-1), and at most
\* 1.3 * backoff_base * 2^n (delays in 1/10000 s, the base in 1/10 s).
C24_BackoffBounds ==
    call.fn = "sleep_backoff" =>
        LET k == call.args[1]
            base == call.args[2]
            n == call.args[3]
        IN /\ k >= 1
           /\ 700 * base * 2 ^ (k - 1) <= call.ret
           /\ call.ret <= 1300 * base * 2 ^ (k - 1)
           /\ call.ret <= 1300 * base * 2 ^ n

\* C24 witness: the sleep after the second failed attempt, with the largest
\* jitter, of a fetch with max_retries = 3 and base 0.5 s: 1.299 s
C24_Witness ==
    /\ call.fn = "sleep_backoff"
    /\ call.args = <<2, 5, 3>>
    /\ call.ret = 12990

-----------------------------------------------------------------------------
(* Claims about the classification of responses, checked under SpecRun *)

\* the responses with a status that is neither retried nor 2xx and with an
\* HTML Content-Type or none
Non2xxHtmlResponses ==
    {r \in Responses : /\ r.kind = "response"
                       /\ r.status \notin {429, 500, 502, 503, 504}
                       /\ r.status \notin 200 .. 299
                       /\ r.ctype \in {"text/html", ""}}

\* C26: the step of fetch that receives a response with a status outside
\* {429, 500, 502, 503, 504} and outside 2xx, and with an HTML content type
\* or none, returns the body of the response on that attempt: no retry, no
\* backoff sleep; and search hands a body that is not empty to parse_items.
C26_Non2xxHtmlIsBody ==
    /\ [][\A t \in tasks : pc[t] = "get" =>
          \A r \in Non2xxHtmlResponses, b \in web :
            GetDone(t, r, b)
                => /\ pc'[t] = "done" /\ retAt'[t] = "html"
                   /\ result'[t] = Html(b)
                   /\ attempt'[t] = attempt[t]
                   /\ sleeps'[t] = sleeps[t]
                   /\ gets'[t] = gets[t]]_vars
    /\ [][\A t \in tasks :
            (FetchReturn(t) /\ retAt[t] = "html" /\ ~result[t].body.blank)
                => rpc' = "items" /\ pending' = result[t].body.nodes]_vars

-----------------------------------------------------------------------------
(* Claims about the order of opening the file and validating the query,
   checked under SpecRun *)

\* C27: with a csv file configured, before the query is validated the file
\* already holds the header and nothing of what it held before; and a run
\* whose query sanitize_query rejects has failed with no fetch issued, no
\* request made, no row counted, and the file holding exactly the header.
C27_HeaderBeforeValidation ==
    cfg.output_csv =>
        /\ rpc = "search" => csvFile = <<HeaderLine>>
        /\ (rpc \notin {"start", "search"} /\ ~sanitize_query(inputQuery).ok)
              => /\ rpc = "raised" /\ exitStatus = 1
                 /\ fetchLog = <<>>
                 /\ \A t \in tasks : gets[t] = 0
                 /\ \A k \in Keys : robotsGets[k] = 0
                 /\ rows = 0 /\ yielded = <<>>
                 /\ csvFile = <<HeaderLine>>

\* C27 witness: a run with a query of whitespace only has failed; the file
\* that held other content holds the header alone
C27_Witness ==
    /\ cfg.output_csv /\ rpc = "raised"
    /\ inputQuery # <<>> /\ ~HasNonWhitespace(inputQuery)
    /\ csvFile = <<HeaderLine>> /\ OldLine # HeaderLine
    /\ fetchLog = <<>>

-----------------------------------------------------------------------------
(* Claims about termination, checked under SpecRunLive *)

\* C28: with every request and sleep ending, the attempts and requests of a
\* fetch never exceed max_retries + 1; a fetch that has returned makes no
\* request and enters no attempt (until search calls fetch again); a fetch
\* that is called returns; and the run ends, done or failed on its input.
C28_Terminates ==
    /\ [](\A t \in tasks : /\ attempt[t] <= cfg.max_retries + 1
                            /\ gets[t] <= cfg.max_retries + 1)
    /\ [][\A t \in tasks :
            pc[t] \in {"done", "idle"}
                => \/ gets'[t] = gets[t] /\ attempt'[t] = attempt[t] /\ sleeps'[t] = sleeps[t]
                   \/ pc'[t] = "start"]_vars
    /\ (\E t \in tasks : pc[t] = "start") ~> (\E t \in tasks : pc[t] = "done")
    /\ (rpc = "start") ~> (rpc \in {"done", "raised"})

\* C28 witness: the run over two targets is done; the fetch of the last
\* target returned after two attempts that failed, with max_retries = 2
C28_Witness ==
    /\ rpc = "done" /\ Len(targets) = 2 /\ Len(fetchLog) = 2
    /\ cfg.max_retries = 2
    /\ \E t \in tasks :
        /\ retAt[t] = "exhausted" /\ attempt[t] = 2 /\ gets[t] = 2 /\ sleeps[t] = 1

====
